---- MODULE Spec2Model ----
(***************************************************************************)
(* Expense Tracker (src/expense_tracker.py): the ledger kept by            *)
(* ExpenseTracker, its persistence to expenses.json and its summaries.     *)
(*                                                                         *)
(* Text is a sequence of one-character strings, so that parsing and        *)
(* formatting are computed, not assumed.  A float amount is held as an     *)
(* integer number of tenths (the amount texts offered to the program have  *)
(* at most one fractional digit).                                          *)
(***************************************************************************)
EXTENDS Integers, Sequences, FiniteSets, TLC

VARIABLES
    pc,        \* position in __main__: "start", "loop" (top of the while loop),
               \* "menu" (at the prompt), "exited", "crashed" (uncaught exception)
    expenses,  \* tracker.expenses: the list of Expense objects
    file,      \* the content of expenses.json
    inp,       \* what the last handler read from input()
    out        \* what the last handler printed, and whether it saved

vars == <<pc, expenses, file, inp, out>>

\* Largest ledger the model lets add_expenses build.
MaxLen == 3

(***************************************************************************)
(* Characters and text                                                     *)
(***************************************************************************)
Digits == <<"0", "1", "2", "3", "4", "5", "6", "7", "8", "9">>

IsDigit(c) == \E i \in 1..10 : Digits[i] = c

DigitVal(c) == (CHOOSE i \in 1..10 : Digits[i] = c) - 1

\* Code point of a character, for the characters bucket keys are made of.
Ord(c) ==
    CASE c = " " -> 32
      [] c = "-" -> 45
      [] IsDigit(c) -> 48 + DigitVal(c)
      [] c = "W" -> 87
      [] OTHER -> 120

\* str < str: comparison by code point, a proper prefix being smaller.
LexLess(a, b) ==
    \E i \in 1..(Len(a) + 1) :
        /\ \A j \in 1..(i - 1) : j <= Len(b) /\ a[j] = b[j]
        /\ \/ i = Len(a) + 1 /\ i <= Len(b)
           \/ i <= Len(a) /\ i <= Len(b) /\ Ord(a[i]) < Ord(b[i])

RECURSIVE LStrip(_)
LStrip(s) == IF s # <<>> /\ Head(s) = " " THEN LStrip(Tail(s)) ELSE s

RECURSIVE RStrip(_)
RStrip(s) ==
    IF s # <<>> /\ s[Len(s)] = " " THEN RStrip(SubSeq(s, 1, Len(s) - 1)) ELSE s

\* str.strip()
Strip(s) == RStrip(LStrip(s))

\* Value of a text made of decimal digits only.
RECURSIVE DigitsVal(_)
DigitsVal(s) ==
    IF s = <<>> THEN 0
    ELSE 10 * DigitsVal(SubSeq(s, 1, Len(s) - 1)) + DigitVal(s[Len(s)])

AllDigits(s) == s # <<>> /\ \A i \in 1..Len(s) : IsDigit(s[i])

\* str(n) for a natural number: decimal, no padding.
RECURSIVE IntText(_)
IntText(n) ==
    IF n < 10 THEN <<Digits[n + 1]>>
    ELSE IntText(n \div 10) \o <<Digits[(n % 10) + 1]>>

\* Two digits, zero padded (strftime's %m).
Pad2(n) == <<Digits[(n \div 10) + 1], Digits[(n % 10) + 1]>>

\* A failed conversion: the ValueError of int() and float().
NoValue == [ok |-> FALSE, val |-> 0]

Value(n) == [ok |-> TRUE, val |-> n]

Unsigned(s) == IF s # <<>> /\ Head(s) \in {"+", "-"} THEN Tail(s) ELSE s

\* int(s): an optional sign and decimal digits.
ParseInt(s) ==
    IF ~AllDigits(Unsigned(s)) THEN NoValue
    ELSE IF s[1] = "-" THEN Value(0 - DigitsVal(Unsigned(s)))
    ELSE Value(DigitsVal(Unsigned(s)))

\* float(s), in tenths: an optional sign, then digits with at most one
\* point among them.  Exponents, "inf" and "nan" are not among the texts the
\* model offers, nor is a second fractional digit.
ParseFloat(s) ==
    LET u == Unsigned(s)
        sign == IF s # <<>> /\ s[1] = "-" THEN 0 - 1 ELSE 1
        dots == {i \in 1..Len(u) : u[i] = "."}
        dot == IF dots = {} THEN Len(u) + 1 ELSE CHOOSE i \in dots : TRUE
        whole == SubSeq(u, 1, dot - 1)
        frac == SubSeq(u, dot + 1, Len(u))
    IN  IF /\ Cardinality(dots) <= 1
           /\ whole \o frac # <<>>
           /\ \A i \in 1..Len(u) : i = dot \/ IsDigit(u[i])
        THEN Value(sign * (10 * DigitsVal(whole)
                           + (IF frac = <<>> THEN 0 ELSE DigitVal(frac[1]))))
        ELSE NoValue

Uppers ==
    <<"A", "B", "C", "D", "E", "F", "G", "H", "I", "J", "K", "L", "M",
      "N", "O", "P", "Q", "R", "S", "T", "U", "V", "W", "X", "Y", "Z">>

Lowers ==
    <<"a", "b", "c", "d", "e", "f", "g", "h", "i", "j", "k", "l", "m",
      "n", "o", "p", "q", "r", "s", "t", "u", "v", "w", "x", "y", "z">>

\* str.lower()
Lower(s) ==
    [i \in 1..Len(s) |->
        IF \E k \in 1..26 : Uppers[k] = s[i]
        THEN Lowers[CHOOSE k \in 1..26 : Uppers[k] = s[i]]
        ELSE s[i]]

(***************************************************************************)
(* Calendar: datetime.strptime(s, "%Y-%m-%d"), strftime and isocalendar    *)
(***************************************************************************)
IsLeap(y) == y % 4 = 0 /\ (y % 100 # 0 \/ y % 400 = 0)

DaysInMonth(y, m) ==
    IF m = 2 THEN (IF IsLeap(y) THEN 29 ELSE 28)
    ELSE IF m \in {4, 6, 9, 11} THEN 30 ELSE 31

RECURSIVE DaysBeforeMonth(_, _)
DaysBeforeMonth(y, m) ==
    IF m = 1 THEN 0 ELSE DaysBeforeMonth(y, m - 1) + DaysInMonth(y, m - 1)

\* Proleptic Gregorian ordinal, 0001-01-01 being day 1.
Ordinal(y, m, d) ==
    (y - 1) * 365 + ((y - 1) \div 4) - ((y - 1) \div 100) + ((y - 1) \div 400)
    + DaysBeforeMonth(y, m) + d

\* Length of the text %m matches at position i: 1[0-2] | 0[1-9] | [1-9].
MonthLen(s, i) ==
    IF i + 1 <= Len(s) /\ s[i] = "1" /\ s[i + 1] \in {"0", "1", "2"} THEN 2
    ELSE IF i + 1 <= Len(s) /\ s[i] = "0" /\ IsDigit(s[i + 1]) /\ s[i + 1] # "0"
         THEN 2
    ELSE IF i <= Len(s) /\ IsDigit(s[i]) /\ s[i] # "0" THEN 1
    ELSE 0

\* Length of the text %d matches at position i:
\* 3[0-1] | [1-2]\d | 0[1-9] | [1-9] | " "[1-9].
DayLen(s, i) ==
    IF i + 1 <= Len(s) /\ s[i] = "3" /\ s[i + 1] \in {"0", "1"} THEN 2
    ELSE IF i + 1 <= Len(s) /\ s[i] \in {"1", "2"} /\ IsDigit(s[i + 1]) THEN 2
    ELSE IF i + 1 <= Len(s) /\ s[i] \in {"0", " "} /\ IsDigit(s[i + 1])
            /\ s[i + 1] # "0"
         THEN 2
    ELSE IF i <= Len(s) /\ IsDigit(s[i]) /\ s[i] # "0" THEN 1
    ELSE 0

NoDate == [ok |-> FALSE, year |-> 0, month |-> 0, day |-> 0]

\* datetime.strptime(s, "%Y-%m-%d"); ok = FALSE stands for its ValueError.
strptime(s) ==
    IF ~(Len(s) >= 5 /\ AllDigits(SubSeq(s, 1, 4)) /\ s[5] = "-") THEN NoDate
    ELSE
    LET ml == MonthLen(s, 6) IN
    IF ml = 0 \/ ~(6 + ml <= Len(s) /\ s[6 + ml] = "-") THEN NoDate
    ELSE
    LET dl == DayLen(s, 7 + ml) IN
    IF dl = 0 \/ 6 + ml + dl # Len(s) THEN NoDate      \* unconverted data remains
    ELSE
    LET y == DigitsVal(SubSeq(s, 1, 4))
        m == DigitsVal(SubSeq(s, 6, 5 + ml))
        d == DigitsVal(Strip(SubSeq(s, 7 + ml, 6 + ml + dl)))
    IN  IF y >= 1 /\ d <= DaysInMonth(y, m)
        THEN [ok |-> TRUE, year |-> y, month |-> m, day |-> d]
        ELSE NoDate                                      \* day is out of range

\* date.isocalendar()[1]
IsoWeek1Monday(y) ==
    LET firstday == Ordinal(y, 1, 1)
        firstweekday == (firstday + 6) % 7
        monday == firstday - firstweekday
    IN  IF firstweekday > 3 THEN monday + 7 ELSE monday

IsoWeek(y, m, d) ==
    LET today == Ordinal(y, m, d)
        delta == today - IsoWeek1Monday(y)
    IN  IF delta < 0 THEN ((today - IsoWeek1Monday(y - 1)) \div 7) + 1
        ELSE IF delta \div 7 >= 52 /\ today >= IsoWeek1Monday(y + 1) THEN 1
        ELSE (delta \div 7) + 1

(***************************************************************************)
(* Expense and its mapping form                                            *)
(***************************************************************************)
Expense(amount, category, date) ==
    [amount |-> amount, category |-> category, date |-> date]

\* to_dict with the category key misspelt.
to_dict_typo(e) ==
    [amount |-> e.amount, catagory |-> e.category, date |-> e.date]

to_dict(e) ==
    [amount |-> e.amount, category |-> e.category, date |-> e.date]

\* data['amount'], data['category'], data['date'] each raise KeyError when
\* the key is absent.
HasKeys(data) == {"amount", "category", "date"} \subseteq DOMAIN data

from_dict(data) == Expense(data.amount, data.category, data.date)

(***************************************************************************)
(* ExpenseTracker: validation and persistence                              *)
(***************************************************************************)
\* validate_date returning True on both paths.
validate_date_lax(date_str) == TRUE

validate_date(date_str) == strptime(date_str).ok

NoFile == [kind |-> "missing", data |-> <<>>]

CorruptFile == [kind |-> "corrupt", data |-> <<>>]

\* json.dump of the list of mappings, replacing the file.
save_to_file(exps) ==
    [kind |-> "json", data |-> [i \in 1..Len(exps) |-> to_dict(exps[i])]]

\* status "missing": FileNotFoundError, caught; "corrupt": JSONDecodeError,
\* caught; "KeyError": raised by from_dict and caught nowhere.
load_from_file(f) ==
    IF f.kind = "missing" THEN [status |-> "missing", expenses |-> <<>>]
    ELSE IF f.kind = "corrupt" THEN [status |-> "corrupt", expenses |-> <<>>]
    ELSE IF \E i \in 1..Len(f.data) : ~HasKeys(f.data[i])
         THEN [status |-> "KeyError", expenses |-> <<>>]
    ELSE [status |-> "loaded",
          expenses |-> [i \in 1..Len(f.data) |-> from_dict(f.data[i])]]

(***************************************************************************)
(* Texts the user may type, and files the program may find at start-up     *)
(***************************************************************************)
Food == <<"F", "o", "o", "d">>

food == <<"f", "o", "o", "d">>

D_2024_01_01 == <<"2", "0", "2", "4", "-", "0", "1", "-", "0", "1">>

D_2024_1_8 == <<"2", "0", "2", "4", "-", "1", "-", "8">>

D_2024_01_08 == <<"2", "0", "2", "4", "-", "0", "1", "-", "0", "8">>

D_2024_03_04 == <<"2", "0", "2", "4", "-", "0", "3", "-", "0", "4">>

D_2024_02_30 == <<"2", "0", "2", "4", "-", "0", "2", "-", "3", "0">>

NoText == <<>>

AmountInputs == {NoText, <<"5">>, <<"2", ".", "5">>, <<"x">>}

\* Answers to "Enter the category" (add_expenses, view_summary) and to
\* "Enter new category (or press Enter to keep current)" (edit_expense).
CategoryInputs == {Food, food}

NewCategoryInputs == {NoText} \cup CategoryInputs

DateInputs == {NoText, <<" ">>, D_2024_1_8, D_2024_02_30}

\* datetime.now().strftime("%Y-%m-%d")
Todays == {D_2024_03_04}

SelectionInputs ==
    {IntText(n) : n \in 0..(MaxLen + 1)} \cup {NoText, <<"x">>, <<"-", "1">>}

ChoiceInputs == {<<"1">>, <<"2">>, <<"3">>, <<"4">>, <<"x">>}

StartFiles ==
    { NoFile,
      CorruptFile,
      [kind |-> "json", data |-> <<>>],
      [kind |-> "json",
       data |-> << [amount |-> 25, category |-> food, date |-> D_2024_03_04,
                    note |-> <<"x">>] >>],
      [kind |-> "json",
       data |-> << [amount |-> 50, category |-> Food] >>] }

(***************************************************************************)
(* What a handler read and printed                                         *)
(***************************************************************************)
Read(op, sel, sub, amount, category, date) ==
    [op |-> op, sel |-> sel, sub |-> sub, amount |-> amount,
     category |-> category, date |-> date]

Printed(msgs, saved, rows) == [msgs |-> msgs, saved |-> saved, rows |-> rows]

MsgNoData == "No previous data found. Starting fresh."
MsgCorrupt == "Data file is corrupt. Starting with an empty list."
MsgLoaded == "Loaded expenses."
MsgAdded == "Expense added successfully."
MsgBadAmount == "Invalid input, please enter a numeric amount."
MsgBadDate == "Invalid date format. Please use YYYY-MM-DD."
MsgNothingToDelete == "No expenses to delete."
MsgNothingToEdit == "No expenses to edit."
MsgDeleted == "Deleted."
MsgBadSelection == "Invalid selection."
MsgBadInput == "Invalid input."
MsgKeepAmount == "Invalid amount. Keeping previous."
MsgKeepDate == "Invalid date format. Keeping previous."
MsgUpdated == "Expense updated successfully."
MsgNoExpenses == "No expenses recorded yet."
MsgNotNumber == "Invalid input, please enter a number."
MsgTotal == "The total spending is."
MsgSkipping == "Skipping invalid date format."
MsgBadTimeChoice == "Invalid choice"
MsgSummary == "Spending over time summary:"
MsgBadOption == "Please choose a valid option."
MsgNoGraph == "No data for graphical summary."
MsgChart == "Expense Distribution by Category"
MsgGoodbye == "Thank you for using Expense Tracker. Goodbye!"
MsgMenu == "================ Expense Tracker Menu ================"
MsgBadMenu == "Invalid choice. Please enter a number between 1 and 6."
MsgTraceback == "Traceback (most recent call last)"

(***************************************************************************)
(* List operations                                                         *)
(***************************************************************************)
\* Position (from 1) of Python index i, a negative index counting from the end.
At(exps, i) == IF i < 0 THEN Len(exps) + i + 1 ELSE i + 1

\* insert(0, expense) in place of append.
append_front(exps, e) == <<e>> \o exps

\* self.expenses.append(expense)
append(exps, e) == Append(exps, e)

\* self.expenses.pop(i)
pop(exps, i) ==
    SubSeq(exps, 1, At(exps, i) - 1) \o SubSeq(exps, At(exps, i) + 1, Len(exps))

\* The range check starting at 0, which lets choice - 1 = -1 through.
valid_selection_from_zero(choice, n) == 0 <= choice /\ choice <= n

\* 1 <= choice <= len(self.expenses)
valid_selection(choice, n) == 1 <= choice /\ choice <= n

(***************************************************************************)
(* __main__: start-up                                                      *)
(***************************************************************************)
Init ==
    /\ pc = "start"
    /\ expenses = <<>>
    /\ file \in StartFiles
    /\ inp = Read("none", NoText, NoText, NoText, NoText, NoText)
    /\ out = Printed({}, FALSE, <<>>)

\* tracker.load_from_file(); a KeyError leaves through the top of the program.
Start ==
    /\ pc = "start"
    /\ LET r == load_from_file(file) IN
        /\ pc' = IF r.status = "KeyError" THEN "crashed" ELSE "loop"
        /\ expenses' = IF r.status = "loaded" THEN r.expenses ELSE expenses
        /\ out' = Printed({CASE r.status = "missing" -> MsgNoData
                             [] r.status = "corrupt" -> MsgCorrupt
                             [] r.status = "loaded" -> MsgLoaded
                             [] OTHER -> MsgTraceback}, FALSE, <<>>)
    /\ inp' = Read("load", NoText, NoText, NoText, NoText, NoText)
    /\ UNCHANGED file

(***************************************************************************)
(* add_expenses                                                            *)
(***************************************************************************)
add_expenses ==
    /\ pc = "menu"
    /\ \E a \in AmountInputs :
        LET amount == ParseFloat(Strip(a)) IN
        IF ~amount.ok
        THEN /\ inp' = Read("add", NoText, NoText, a, NoText, NoText)
             /\ out' = Printed({MsgBadAmount}, FALSE, <<>>)
             /\ pc' = "loop" /\ UNCHANGED <<expenses, file>>
        ELSE \E c \in CategoryInputs, d \in DateInputs, now \in Todays :
            LET category == Strip(c)
                date == IF Strip(d) = NoText THEN now ELSE Strip(d)
            IN  /\ inp' = Read("add", NoText, NoText, a, c, d)
                /\ IF ~validate_date(date)
                   THEN /\ out' = Printed({MsgBadDate}, FALSE, <<>>)
                        /\ pc' = "loop" /\ UNCHANGED <<expenses, file>>
                   ELSE /\ Len(expenses) < MaxLen
                        /\ expenses' =
                               append(expenses, Expense(amount.val, category, date))
                        /\ file' = save_to_file(expenses')
                        /\ out' = Printed({MsgAdded}, TRUE, <<>>)
                        /\ pc' = "loop"

(***************************************************************************)
(* delete_expense                                                          *)
(***************************************************************************)
delete_expense ==
    /\ pc = "menu"
    /\ IF expenses = <<>>
       THEN /\ inp' = Read("delete", NoText, NoText, NoText, NoText, NoText)
            /\ out' = Printed({MsgNothingToDelete}, FALSE, <<>>)
            /\ pc' = "loop" /\ UNCHANGED <<expenses, file>>
       ELSE \E t \in SelectionInputs :
            LET choice == ParseInt(Strip(t)) IN
            /\ inp' = Read("delete", t, NoText, NoText, NoText, NoText)
            /\ IF ~choice.ok
               THEN /\ out' = Printed({MsgBadInput}, FALSE, <<>>)
                    /\ pc' = "loop" /\ UNCHANGED <<expenses, file>>
               ELSE IF valid_selection(choice.val, Len(expenses))
               THEN /\ expenses' = pop(expenses, choice.val - 1)
                    /\ file' = save_to_file(expenses')
                    /\ out' = Printed({MsgDeleted}, TRUE, <<>>)
                    /\ pc' = "loop"
               ELSE /\ out' = Printed({MsgBadSelection}, FALSE, <<>>)
                    /\ pc' = "loop" /\ UNCHANGED <<expenses, file>>

(***************************************************************************)
(* edit_expense                                                            *)
(***************************************************************************)
\* A mistaken edit that gives up at the first field it cannot convert.
edited_or_abort(expense, new_amount, new_category, new_date) ==
    IF new_amount # NoText /\ ~ParseFloat(new_amount).ok THEN expense
    ELSE IF new_date # NoText /\ ~validate_date(new_date) THEN expense
    ELSE Expense(IF new_amount # NoText
                 THEN ParseFloat(new_amount).val ELSE expense.amount,
                 IF new_category # NoText THEN new_category ELSE expense.category,
                 IF new_date # NoText THEN new_date ELSE expense.date)

\* A mistaken edit that assigns every field it was given, empty or not.
edited_blank(expense, new_amount, new_category, new_date) ==
    Expense(IF ParseFloat(new_amount).ok
            THEN ParseFloat(new_amount).val ELSE expense.amount,
            new_category,
            IF validate_date(new_date) THEN new_date ELSE expense.date)

\* The three field updates of edit_expense, applied to the chosen expense.
edited(expense, new_amount, new_category, new_date) ==
    Expense(IF new_amount # NoText /\ ParseFloat(new_amount).ok
            THEN ParseFloat(new_amount).val ELSE expense.amount,
            IF new_category # NoText THEN new_category ELSE expense.category,
            IF new_date # NoText /\ validate_date(new_date)
            THEN new_date ELSE expense.date)

edit_expense ==
    /\ pc = "menu"
    /\ IF expenses = <<>>
       THEN /\ inp' = Read("edit", NoText, NoText, NoText, NoText, NoText)
            /\ out' = Printed({MsgNothingToEdit}, FALSE, <<>>)
            /\ pc' = "loop" /\ UNCHANGED <<expenses, file>>
       ELSE \E t \in SelectionInputs :
            LET choice == ParseInt(Strip(t)) IN
            IF ~choice.ok
            THEN /\ inp' = Read("edit", t, NoText, NoText, NoText, NoText)
                 /\ out' = Printed({MsgBadInput}, FALSE, <<>>)
                 /\ pc' = "loop" /\ UNCHANGED <<expenses, file>>
            ELSE IF valid_selection(choice.val, Len(expenses))
            THEN \E a \in AmountInputs, c \in NewCategoryInputs, d \in DateInputs :
                 LET new_amount == Strip(a)
                     new_category == Strip(c)
                     new_date == Strip(d)
                     k == At(expenses, choice.val - 1)
                 IN  /\ inp' = Read("edit", t, NoText, a, c, d)
                     /\ expenses' =
                            [expenses EXCEPT
                                ![k] = edited(@, new_amount, new_category, new_date)]
                     /\ file' = save_to_file(expenses')
                     /\ out' = Printed(
                            {MsgUpdated}
                            \cup (IF new_amount # NoText /\ ~ParseFloat(new_amount).ok
                                  THEN {MsgKeepAmount} ELSE {})
                            \cup (IF new_date # NoText /\ ~validate_date(new_date)
                                  THEN {MsgKeepDate} ELSE {}),
                            TRUE, <<>>)
                     /\ pc' = "loop"
            ELSE /\ inp' = Read("edit", t, NoText, NoText, NoText, NoText)
                 /\ out' = Printed({MsgBadSelection}, FALSE, <<>>)
                 /\ pc' = "loop" /\ UNCHANGED <<expenses, file>>

(***************************************************************************)
(* view_summary                                                            *)
(***************************************************************************)
\* sum(exp.amount for exp in self.expenses if <position in I>)
RECURSIVE SumAmounts(_, _)
SumAmounts(exps, I) ==
    IF I = {} THEN 0
    ELSE LET i == CHOOSE x \in I : TRUE
         IN  exps[i].amount + SumAmounts(exps, I \ {i})

\* The bucket key of a date that validate_date accepted.
\* time_choice 1: the date text; 2: strftime("%Y-%m"); 3: f"{year}-W{week}".
bucket_key(date, time_choice) ==
    LET date_obj == strptime(date) IN
    CASE time_choice = 1 -> date
      [] time_choice = 2 -> IntText(date_obj.year) \o <<"-">> \o Pad2(date_obj.month)
      [] OTHER -> IntText(date_obj.year) \o <<"-", "W">>
                  \o IntText(IsoWeek(date_obj.year, date_obj.month, date_obj.day))

\* sorted(...) of a set of distinct texts.
RECURSIVE Sorted(_)
Sorted(S) ==
    IF S = {} THEN <<>>
    ELSE LET m == CHOOSE x \in S : \A y \in S \ {x} : LexLess(x, y)
         IN  <<m>> \o Sorted(S \ {m})

Dated(exps) == {i \in 1..Len(exps) : validate_date(exps[i].date)}

\* The rows printed after "Spending over time summary:".
time_summary(exps, time_choice) ==
    LET keys == Sorted({bucket_key(exps[i].date, time_choice) : i \in Dated(exps)})
    IN  [n \in 1..Len(keys) |->
            <<keys[n],
              SumAmounts(exps, {i \in Dated(exps) :
                                   bucket_key(exps[i].date, time_choice) = keys[n]})>>]

view_summary ==
    /\ pc = "menu"
    /\ pc' = "loop" /\ UNCHANGED <<expenses, file>>
    /\ IF expenses = <<>>
       THEN /\ inp' = Read("view", NoText, NoText, NoText, NoText, NoText)
            /\ out' = Printed({MsgNoExpenses}, FALSE, <<>>)
       ELSE \E t \in ChoiceInputs :
            LET choice == ParseInt(Strip(t)) IN
            CASE ~choice.ok ->
                    /\ inp' = Read("view", t, NoText, NoText, NoText, NoText)
                    /\ out' = Printed({MsgNotNumber}, FALSE, <<>>)
              [] choice.ok /\ choice.val = 1 ->
                    \E c \in CategoryInputs :
                        LET category == Strip(c)
                            total == SumAmounts(expenses,
                                        {i \in 1..Len(expenses) :
                                            Lower(expenses[i].category) = Lower(category)})
                        IN  /\ inp' = Read("view", t, NoText, NoText, c, NoText)
                            /\ out' = Printed({MsgTotal}, FALSE, <<<<category, total>>>>)
              [] choice.ok /\ choice.val = 2 ->
                    /\ inp' = Read("view", t, NoText, NoText, NoText, NoText)
                    /\ out' = Printed({MsgTotal}, FALSE,
                                  <<<<NoText, SumAmounts(expenses, 1..Len(expenses))>>>>)
              [] choice.ok /\ choice.val = 3 ->
                    \E u \in ChoiceInputs :
                        LET time_choice == ParseInt(Strip(u))
                            first == IF Dated(expenses) = {} THEN Len(expenses) + 1
                                     ELSE CHOOSE i \in Dated(expenses) :
                                              \A j \in Dated(expenses) : i <= j
                            known == time_choice.ok /\ time_choice.val \in {1, 2, 3}
                            skipped == \E i \in 1..Len(expenses) :
                                           /\ i \notin Dated(expenses)
                                           /\ known \/ i < first
                        IN  /\ inp' = Read("view", t, u, NoText, NoText, NoText)
                            /\ out' =
                                 IF ~time_choice.ok
                                 THEN Printed({MsgNotNumber}, FALSE, <<>>)
                                 ELSE IF ~known /\ Dated(expenses) # {}
                                 THEN Printed({MsgBadTimeChoice}
                                              \cup (IF skipped THEN {MsgSkipping} ELSE {}),
                                              FALSE, <<>>)
                                 ELSE Printed({MsgSummary}
                                              \cup (IF skipped THEN {MsgSkipping} ELSE {}),
                                              FALSE,
                                              IF known
                                              THEN time_summary(expenses, time_choice.val)
                                              ELSE <<>>)
              [] OTHER ->
                    /\ inp' = Read("view", t, NoText, NoText, NoText, NoText)
                    /\ out' = Printed({MsgBadOption}, FALSE, <<>>)

(***************************************************************************)
(* graphical_summary                                                       *)
(***************************************************************************)
\* category_totals, in the order its keys were first seen.
category_totals(exps) ==
    LET firsts == {i \in 1..Len(exps) :
                      \A j \in 1..(i - 1) : exps[j].category # exps[i].category}
        RECURSIVE Bars(_)
        Bars(I) ==
            IF I = {} THEN <<>>
            ELSE LET i == CHOOSE x \in I : \A y \in I : x <= y
                 IN  <<<<exps[i].category,
                         SumAmounts(exps, {j \in 1..Len(exps) :
                                              exps[j].category = exps[i].category})>>>>
                     \o Bars(I \ {i})
    IN  Bars(firsts)

graphical_summary ==
    /\ pc = "menu"
    /\ inp' = Read("graph", NoText, NoText, NoText, NoText, NoText)
    /\ out' = IF expenses = <<>>
              THEN Printed({MsgNoGraph}, FALSE, <<>>)
              ELSE Printed({MsgChart}, FALSE, category_totals(expenses))
    /\ pc' = "loop" /\ UNCHANGED <<expenses, file>>

(***************************************************************************)
(* __main__: the menu loop                                                 *)
(***************************************************************************)
Exit ==
    /\ pc = "menu"
    /\ pc' = "exited"
    /\ inp' = Read("exit", NoText, NoText, NoText, NoText, NoText)
    /\ out' = Printed({MsgGoodbye}, FALSE, <<>>)
    /\ UNCHANGED <<expenses, file>>

InvalidChoice ==
    /\ pc = "menu"
    /\ inp' = Read("other", NoText, NoText, NoText, NoText, NoText)
    /\ out' = Printed({MsgBadMenu}, FALSE, <<>>)
    /\ pc' = "loop" /\ UNCHANGED <<expenses, file>>

\* The top of the while loop: the menu is printed and the choice awaited.
ShowMenu ==
    /\ pc = "loop"
    /\ pc' = "menu"
    /\ inp' = Read("none", NoText, NoText, NoText, NoText, NoText)
    /\ out' = Printed({MsgMenu}, FALSE, <<>>)
    /\ UNCHANGED <<expenses, file>>

Next ==
    \/ Start
    \/ ShowMenu
    \/ add_expenses
    \/ view_summary
    \/ edit_expense
    \/ delete_expense
    \/ graphical_summary
    \/ Exit
    \/ InvalidChoice

Spec == Init /\ [][Next]_vars

(***************************************************************************)
(* The program started with no usable expenses.json                        *)
(***************************************************************************)
InitFresh == Init /\ file \in {NoFile, CorruptFile, [kind |-> "json", data |-> <<>>]}

SpecFresh == InitFresh /\ [][Next]_vars

(***************************************************************************)
(* view_summary over ledgers holding a wider choice of dates.  Each ledger *)
(* is one add_expenses or load_from_file can build, saved as it stands.    *)
(***************************************************************************)
SummaryDates == {D_2024_01_01, D_2024_01_08, D_2024_03_04, D_2024_02_30}

SummaryLedgers ==
    UNION {[1..n -> {Expense(50, Food, d) : d \in SummaryDates}] : n \in 1..MaxLen}

InitSummary ==
    /\ pc = "menu"
    /\ expenses \in SummaryLedgers
    /\ file = save_to_file(expenses)
    /\ inp = Read("none", NoText, NoText, NoText, NoText, NoText)
    /\ out = Printed({MsgMenu}, FALSE, <<>>)

NextSummary ==
    \/ view_summary
    \/ ShowMenu

SpecSummary == InitSummary /\ [][NextSummary]_vars

(***************************************************************************)
(* Properties                                                              *)
(***************************************************************************)
\* The position a selection text denotes (0 when it is no integer).
Selected(t) == ParseInt(Strip(t)).val

IsPosition(t, n) == ParseInt(Strip(t)).ok /\ 1 <= Selected(t) /\ Selected(t) <= n

\* C1: after every successful add, delete or edit, loading the file that was
\* just written gives back the ledger in memory: the same records in the same
\* order with the same amount, category and date; a record just added is
\* among the records loaded.
C1_SavedFileLoadsBackToLedger ==
    out.saved =>
        LET r == load_from_file(file) IN
        /\ r.status = "loaded"
        /\ r.expenses = expenses
        /\ inp.op = "add" =>
              \E i \in 1..Len(r.expenses), now \in Todays :
                  r.expenses[i] =
                      Expense(ParseFloat(Strip(inp.amount)).val, Strip(inp.category),
                              IF Strip(inp.date) = NoText THEN now ELSE Strip(inp.date))

C1_Witness ==
    /\ out.saved
    /\ inp.op = "add"
    /\ Len(expenses) = MaxLen
    /\ load_from_file(file).expenses = expenses

\* C2: an add whose date is typed and does not parse as a date is rejected
\* with the invalid-date message, whatever amount and category came with it:
\* no record is appended, the ledger is what it was, and the file is not
\* rewritten.  (An empty entry is no date: add_expenses then takes today's.)
C2_InvalidDateRejectsAdd ==
    [][ (inp'.op = "add" /\ Strip(inp'.date) # NoText /\ ~strptime(Strip(inp'.date)).ok)
        => /\ expenses' = expenses
           /\ file' = file
           /\ ~out'.saved
           /\ out'.msgs = {MsgBadDate} ]_vars

C2_Witness ==
    /\ inp.op = "add"
    /\ inp.date = D_2024_02_30
    /\ inp.amount = <<"2", ".", "5">>
    /\ out.msgs = {MsgBadDate}
    /\ Len(expenses) = 2

\* C3: a delete whose selection is no integer, or is an integer outside
\* 1..length (0 and length + 1 among them), fails with the invalid-input or
\* the invalid-selection message and changes nothing: same records, same
\* order, same length, nothing saved.  (On an empty ledger delete_expense asks
\* for no selection and reports that there is nothing to delete.)
C3_BadSelectionDeletesNothing ==
    [][ (inp'.op = "delete" /\ ~IsPosition(inp'.sel, Len(expenses)))
        => /\ expenses' = expenses
           /\ file' = file
           /\ ~out'.saved
           /\ out'.msgs =
                 IF expenses = <<>> THEN {MsgNothingToDelete}
                 ELSE IF ParseInt(Strip(inp'.sel)).ok THEN {MsgBadSelection}
                 ELSE {MsgBadInput} ]_vars

C3_Witness ==
    /\ inp.op = "delete"
    /\ expenses # <<>>
    /\ inp.sel = IntText(Len(expenses) + 1)
    /\ out.msgs = {MsgBadSelection}

\* C4: an edit at a valid position updates amount, category and date each on
\* its own: a new amount that is no number keeps the old amount, a new date
\* that is no date keeps the old date, and neither stops the other fields
\* from taking their new values; the edit is then saved.
C4_EditFieldsIndependent ==
    [][ (inp'.op = "edit" /\ IsPosition(inp'.sel, Len(expenses)))
        => LET k == Selected(inp'.sel)
               a == Strip(inp'.amount)
               c == Strip(inp'.category)
               d == Strip(inp'.date)
           IN  /\ Len(expenses') = Len(expenses)
               /\ expenses'[k].amount =
                     IF a # NoText /\ ParseFloat(a).ok
                     THEN ParseFloat(a).val ELSE expenses[k].amount
               /\ expenses'[k].category = IF c # NoText THEN c ELSE expenses[k].category
               /\ expenses'[k].date =
                     IF d # NoText /\ strptime(d).ok THEN d ELSE expenses[k].date
               /\ (MsgKeepAmount \in out'.msgs) = (a # NoText /\ ~ParseFloat(a).ok)
               /\ (MsgKeepDate \in out'.msgs) = (d # NoText /\ ~strptime(d).ok)
               /\ MsgUpdated \in out'.msgs
               /\ out'.saved
               /\ file' = save_to_file(expenses') ]_vars

C4_Witness ==
    /\ inp.op = "edit"
    /\ IsPosition(inp.sel, Len(expenses))
    /\ inp.amount = <<"x">>
    /\ inp.category = food
    /\ inp.date = D_2024_02_30
    /\ expenses[Selected(inp.sel)] = Expense(50, food, D_2024_03_04)
    /\ out.msgs = {MsgKeepAmount, MsgKeepDate, MsgUpdated}
    /\ out.saved

\* C5: an edit at a valid position with an empty new amount, an empty new
\* category and an empty new date leaves every record and their order as they
\* were, and still saves the ledger.
C5_EmptyEditKeepsRecord ==
    [][ (/\ inp'.op = "edit"
         /\ IsPosition(inp'.sel, Len(expenses))
         /\ Strip(inp'.amount) = NoText
         /\ Strip(inp'.category) = NoText
         /\ Strip(inp'.date) = NoText)
        => /\ expenses' = expenses
           /\ out'.saved
           /\ file' = save_to_file(expenses) ]_vars

C5_Witness ==
    /\ inp.op = "edit"
    /\ IsPosition(inp.sel, Len(expenses))
    /\ inp.amount = NoText
    /\ inp.category = NoText
    /\ inp.date = NoText
    /\ out.saved
    /\ out.msgs = {MsgUpdated}
    /\ file = save_to_file(expenses)

\* C6: no error of the taxonomy ends the program; in particular start-up never
\* leaves through an exception, whatever expenses.json holds: missing, not
\* JSON, or JSON with an entry lacking amount, category or date.
C6_NoErrorEndsProgram == pc # "crashed"

\* A date in the canonical form: YYYY-MM-DD, ten characters, a real day.
Canonical(date) ==
    /\ Len(date) = 10
    /\ \A i \in {1, 2, 3, 4, 6, 7, 9, 10} : IsDigit(date[i])
    /\ date[5] = "-"
    /\ date[8] = "-"
    /\ strptime(date).ok

\* C7: starting from an empty ledger, whatever adds, edits and deletes follow,
\* every record's date is a real calendar date written YYYY-MM-DD.
C7_StoredDatesCanonical == \A i \in 1..Len(expenses) : Canonical(expenses[i].date)

WeeklyShown ==
    /\ inp.op = "view"
    /\ IsPosition(inp.sel, 3) /\ Selected(inp.sel) = 3
    /\ IsPosition(inp.sub, 3) /\ Selected(inp.sub) = 3
    /\ MsgSummary \in out.msgs

RowKeys == {out.rows[n][1] : n \in 1..Len(out.rows)}

\* C8: in the weekly summary every record with a valid date falls in the bucket
\* named by its year, "-W" and its ISO-8601 week number, and a record dated
\* 2024-01-01 falls in the bucket "2024-W01".
C8_WeeklyKeyIsIsoWeek ==
    WeeklyShown =>
        \A i \in Dated(expenses) :
            LET dt == strptime(expenses[i].date)
                week == IsoWeek(dt.year, dt.month, dt.day)
            IN  /\ \/ IntText(dt.year) \o <<"-", "W">> \o IntText(week) \in RowKeys
                   \/ IntText(dt.year) \o <<"-", "W">> \o Pad2(week) \in RowKeys
                /\ expenses[i].date = D_2024_01_01
                      => <<"2", "0", "2", "4", "-", "W", "0", "1">> \in RowKeys

TimeSummaryShown ==
    /\ inp.op = "view"
    /\ IsPosition(inp.sel, 3) /\ Selected(inp.sel) = 3
    /\ IsPosition(inp.sub, 3)
    /\ MsgSummary \in out.msgs

\* The days (as ordinals) of the records summed into row n.
RowDays(n) ==
    {Ordinal(strptime(expenses[i].date).year, strptime(expenses[i].date).month,
             strptime(expenses[i].date).day) :
        i \in {j \in Dated(expenses) :
                  bucket_key(expenses[j].date, Selected(inp.sub)) = out.rows[n][1]}}

\* C9: whichever of daily, monthly and weekly is asked for, the rows come out
\* in ascending order of their keys, and that is the order of time: no row
\* whose days all come before the days of another row is printed after it.
C9_RowsSortedAndChronological ==
    TimeSummaryShown =>
        \A a, b \in 1..Len(out.rows) :
            a < b =>
                /\ LexLess(out.rows[a][1], out.rows[b][1])
                /\ ~(\A x \in RowDays(b), y \in RowDays(a) : x < y)

\* C10: the ledger keeps insertion order.  A successful add puts the new
\* record last and leaves the earlier ones in place; a successful delete at
\* position p removes that record alone, the ones after it moving up by one
\* in their order; an edit changes neither the length nor any other record;
\* nothing else touches the ledger once it is loaded.
C10_InsertionOrderKept ==
    [][ /\ (inp'.op = "add" /\ out'.saved)
           => /\ Len(expenses') = Len(expenses) + 1
              /\ SubSeq(expenses', 1, Len(expenses)) = expenses
              /\ expenses'[Len(expenses')].amount = ParseFloat(Strip(inp'.amount)).val
              /\ expenses'[Len(expenses')].category = Strip(inp'.category)
        /\ (inp'.op = "delete" /\ out'.saved)
           => LET p == Selected(inp'.sel) IN
              /\ IsPosition(inp'.sel, Len(expenses))
              /\ Len(expenses') = Len(expenses) - 1
              /\ \A i \in 1..(p - 1) : expenses'[i] = expenses[i]
              /\ \A i \in p..Len(expenses') : expenses'[i] = expenses[i + 1]
        /\ inp'.op = "edit"
           => /\ Len(expenses') = Len(expenses)
              /\ \A i \in 1..Len(expenses) :
                    i # Selected(inp'.sel) => expenses'[i] = expenses[i]
        /\ inp'.op \notin {"add", "delete", "edit", "load"} => expenses' = expenses
        /\ ~out'.saved /\ inp'.op # "load" => expenses' = expenses ]_vars

C10_Witness ==
    /\ inp.op = "delete"
    /\ out.saved
    /\ inp.sel = <<"2">>
    /\ Len(expenses) = 2
    /\ expenses[1] # expenses[2]

====
